---- MODULE Spec2Model ----
(***************************************************************************)
(* A model of writer.StarlarkWriter (writer/starlark.go): the buffered     *)
(* emission of Starlark macros with elision of empty directory contexts,   *)
(* and of the identifier sanitizer identName.                              *)
(*                                                                         *)
(* Go strings that the code inspects (identifiers, paths, argument values) *)
(* are sequences of one-character strings; text that the code only         *)
(* produces and compares as a whole (rendered statements) is a string.     *)
(***************************************************************************)
EXTENDS Integers, Sequences, FiniteSets, TLC

VARIABLES
    w,            \* sw.w: the strings accepted by the bufio.Writer, in order
    wErr,         \* sw.w's sticky error (bufio.Writer.err), TRUE once a write failed
    buf,          \* sw.buf: rendered statements not yet written
    currentMacro, \* sw.currentMacro: <<>> is Go's ""
    dirStack,     \* sw.dirStack
    last,         \* history: the most recent call and what it returned
    trace,        \* history: every call that was not rejected by a precondition
    ident,        \* the input of the sanitizer run (SpecIdent)
    sanitized     \* the result of the sanitizer run (SpecIdent)

vars == <<w, wErr, buf, currentMacro, dirStack, last, trace,
          ident, sanitized>>

writerVars == <<w, wErr, buf, currentMacro, dirStack, last, trace>>

-----------------------------------------------------------------------------
(* Bounds of the model. *)

\* Calls per run that get past their precondition checks, over a reliable
\* sink (Spec) and over a failing one (SpecIO).
MaxOps == 5
MaxOpsIO == 4
\* Calls of WriteCommand per run that get past their precondition checks.
MaxCmds == 2
\* Largest number of calls of sw.w that a failing sink accepts within one
\* operation before its first error.
MaxSink == 3
\* Calls per run that get past their precondition checks after sw.w has
\* failed.
MaxFailed == 1
\* Longest enumerated input of the sanitizer run.
MaxLen == 3
\* Calls per run of a single macro that get past their precondition checks.
MaxOpsMacro == 7

NoLimit == 0 - 1

-----------------------------------------------------------------------------
(* Characters and strings. *)

Lower == {"a","b","c","d","e","f","g","h","i","j","k","l","m",
          "n","o","p","q","r","s","t","u","v","w","x","y","z"}
Upper == {"A","B","C","D","E","F","G","H","I","J","K","L","M",
          "N","O","P","Q","R","S","T","U","V","W","X","Y","Z"}
Digit == {"0","1","2","3","4","5","6","7","8","9"}

\* The Go string with these characters.
RECURSIVE Str(_)
Str(s) == IF s = <<>> THEN "" ELSE Head(s) \o Str(Tail(s))

-----------------------------------------------------------------------------
(* Errors: the messages the code returns; Nil is Go's nil error. *)

Nil == "nil"
ErrNested == "nested macros are not allowed"
ErrNoMacro == "no current macro"
ErrNoDir == "no current directory"
ErrInvalidIdent(id) == "invalid Starlark identifier: " \o Str(id)
\* The error of the underlying io.Writer, as bufio.Writer reports it.
ErrIO == "write failed"
\* The error of the literal encoder for a value it cannot encode.
ErrMarshal == "unsupported type"

-----------------------------------------------------------------------------
(* The identifier sanitizer. *)

\* validIdentPattern = `^[a-zA-Z_]\w*$`, matched against the whole string:
\* Go's $ without the m flag matches at the end of the text only, and \w is
\* the ASCII class [0-9A-Za-z_].
RECURSIVE MatchWordStar(_)
MatchWordStar(s) ==
    IF s = <<>> THEN TRUE
    ELSE IF Head(s) \in Lower \cup Upper \cup Digit \cup {"_"}
         THEN MatchWordStar(Tail(s))
         ELSE FALSE

validIdentPattern(s) ==
    IF s = <<>> THEN FALSE
    ELSE IF Head(s) \in Lower \cup Upper \cup {"_"}
         THEN MatchWordStar(Tail(s))
         ELSE FALSE

starlarkReserved ==
    { <<"i","f">>, <<"e","l","i","f">>, <<"e","l","s","e">>,
      <<"a","s","s","e","r","t">>,
      <<"a","n","d">>, <<"o","r">>, <<"n","o","t">>, <<"i","n">>,
      <<"i","s">>, <<"a","s">>,
      <<"f","o","r">>, <<"w","h","i","l","e">>, <<"b","r","e","a","k">>,
      <<"c","o","n","t","i","n","u","e">>, <<"r","e","t","u","r","n">>,
      <<"y","i","e","l","d">>, <<"p","a","s","s">>,
      <<"l","o","a","d">>, <<"i","m","p","o","r","t">>,
      <<"n","o","n","l","o","c","a","l">>, <<"g","l","o","b","a","l">>,
      <<"d","e","f">>, <<"l","a","m","b","d","a">>, <<"c","l","a","s","s">>,
      <<"d","e","l">>, <<"r","a","i","s","e">>, <<"e","x","c","e","p","t">>,
      <<"t","r","y">>, <<"f","i","n","a","l","l","y">>, <<"f","r","o","m">>,
      <<"w","i","t","h">> }

\* identName without the escape of reserved words.
identNameNoEscape(id) ==
    IF ~validIdentPattern(id)
    THEN [name |-> <<>>, err |-> ErrInvalidIdent(id)]
    ELSE [name |-> id, err |-> Nil]

\* identName returns (string, error).
identName(id) ==
    IF ~validIdentPattern(id)
    THEN [name |-> <<>>, err |-> ErrInvalidIdent(id)]
    ELSE IF id \in starlarkReserved
         THEN [name |-> Append(id, "_"), err |-> Nil]
         ELSE [name |-> id, err |-> Nil]

-----------------------------------------------------------------------------
(* Rendering. *)

\* The escapes of Go's %#v (strconv.Quote) for the characters of the model.
GoEscape(c) ==
    CASE c = "\"" -> "\\\""
      [] c = "\\" -> "\\\\"
      [] c = "\n" -> "\\n"
      [] OTHER -> c

RECURSIVE GoEscapeAll(_)
GoEscapeAll(s) ==
    IF s = <<>> THEN "" ELSE GoEscape(Head(s)) \o GoEscapeAll(Tail(s))

GoQuote(s) == "\"" \o GoEscapeAll(s) \o "\""

\* indentf with a tab for the four spaces.
indentfTab(text) == "\t" \o text

\* indentf, applied to a format whose verbs are already substituted.
indentf(text) == "    " \o text

pushDirString(path) ==
    indentf("ctx = ctx.push_directory(ctx, " \o GoQuote(path) \o ")\n")

\* The literal encoder, writer.Marshal: a string becomes a quoted literal,
\* a value of a kind it does not support is an error.
Marshal(arg) ==
    IF arg.kind = "string"
    THEN [val |-> GoQuote(arg.v), err |-> Nil]
    ELSE [val |-> "", err |-> ErrMarshal]

-----------------------------------------------------------------------------
(* The writer.  An operation takes the writer sw, a record of the fields   *)
(* of StarlarkWriter, and returns the writer after the call with the       *)
(* call's results.  sw.sinkLeft is the environment of the call: the number *)
(* of calls of sw.w the underlying io.Writer accepts during the operation  *)
(* before it fails (NoLimit: it does not fail).  An entry of sw.w and      *)
(* sw.buf is [s, id]: s is the string the code holds, id the number of the *)
(* call that rendered it, which no operation reads.                        *)

Sw(left) == [w |-> w, wErr |-> wErr, sinkLeft |-> left, buf |-> buf,
             currentMacro |-> currentMacro, dirStack |-> dirStack]

NewStarlarkWriter ==
    [w |-> <<>>, wErr |-> FALSE, sinkLeft |-> NoLimit, buf |-> <<>>,
     currentMacro |-> <<>>, dirStack |-> <<>>]

Entry(s, id) == [s |-> s, id |-> id]

Result(sw, err, ret) == [sw |-> sw, err |-> err, ret |-> ret]

\* sw.w.WriteString(s): bufio.Writer keeps its first error and from then on
\* accepts nothing.
writeString(sw, e) ==
    IF sw.wErr THEN [sw |-> sw, err |-> ErrIO]
    ELSE IF sw.sinkLeft = 0
         THEN [sw |-> [sw EXCEPT !.wErr = TRUE], err |-> ErrIO]
         ELSE [sw |-> [sw EXCEPT !.w = Append(@, e),
                                 !.sinkLeft = IF @ = NoLimit THEN @ ELSE @ - 1],
               err |-> Nil]

\* sw.w.Flush().
Flush(sw) ==
    IF sw.wErr THEN [sw |-> sw, err |-> ErrIO]
    ELSE IF sw.sinkLeft = 0
         THEN [sw |-> [sw EXCEPT !.wErr = TRUE], err |-> ErrIO]
         ELSE [sw |-> [sw EXCEPT !.sinkLeft = IF @ = NoLimit THEN @ ELSE @ - 1],
               err |-> Nil]

\* The loop of writeBuffered over the entries not yet written.
RECURSIVE writeEntries(_, _)
writeEntries(sw, entries) ==
    IF entries = <<>> THEN [sw |-> sw, err |-> Nil]
    ELSE LET r == writeString(sw, Head(entries))
         IN  IF r.err # Nil THEN r ELSE writeEntries(r.sw, Tail(entries))

\* writeBuffered dropping the pending statements before it writes them.
writeBufferedClearFirst(sw) ==
    LET r == writeEntries([sw EXCEPT !.buf = <<>>], sw.buf)
    IN  [sw |-> r.sw, err |-> r.err]

\* writeBuffered keeping the statements it has written.
writeBufferedKeep(sw) == writeEntries(sw, sw.buf)

writeBuffered(sw) ==
    LET r == writeEntries(sw, sw.buf)
    IN  IF r.err # Nil THEN r
        ELSE [sw |-> [r.sw EXCEPT !.buf = <<>>], err |-> Nil]

\* pop taking the first element for the last.
popFirst(s) == [x |-> s[1], s |-> SubSeq(s, 2, Len(s))]

\* pop(&s): the last element and the slice without it.
pop(s) == [x |-> s[Len(s)], s |-> SubSeq(s, 1, Len(s) - 1)]

\* BeginMacro once the writer is known to be idle.
beginMacro(sw, name, id) ==
    LET n == identName(name)
    IN  IF n.err # Nil THEN Result(sw, n.err, <<>>)
        ELSE Result([sw EXCEPT
                       !.buf = Append(@, Entry("def " \o Str(n.name) \o "(ctx):\n", id)),
                       !.currentMacro = n.name],
                    Nil, <<>>)

\* BeginMacro without its check for an open macro.
BeginMacroNested(sw, name, id) == beginMacro(sw, name, id)

\* BeginMacro recording the name before it is sanitized.
BeginMacroRecordFirst(sw, name, id) ==
    IF sw.currentMacro # <<>> THEN Result(sw, ErrNested, <<>>)
    ELSE LET r == beginMacro(sw, name, id)
         IN  IF r.err # Nil
             THEN Result([sw EXCEPT !.currentMacro = name], r.err, <<>>)
             ELSE r

BeginMacro(sw, name, id) ==
    IF sw.currentMacro # <<>> THEN Result(sw, ErrNested, <<>>)
    ELSE beginMacro(sw, name, id)

\* EndMacro writing the return statement ahead of the pending statements.
EndMacroReturnFirst(sw, id) ==
    IF sw.currentMacro = <<>> THEN Result(sw, ErrNoMacro, <<>>)
    ELSE LET r == writeString(sw, Entry(indentf("return ctx\n"), id))
         IN  IF r.err # Nil THEN Result(r.sw, r.err, <<>>)
             ELSE LET b == writeBuffered(r.sw)
                  IN  IF b.err # Nil THEN Result(b.sw, b.err, <<>>)
                      ELSE LET f == Flush([b.sw EXCEPT !.currentMacro = <<>>])
                           IN  Result(f.sw, f.err, <<>>)

EndMacro(sw, id) ==
    IF sw.currentMacro = <<>> THEN Result(sw, ErrNoMacro, <<>>)
    ELSE LET b == writeBuffered(sw)
         IN  IF b.err # Nil THEN Result(b.sw, b.err, <<>>)
             ELSE LET r == writeString(b.sw, Entry(indentf("return ctx\n"), id))
                  IN  IF r.err # Nil THEN Result(r.sw, r.err, <<>>)
                      ELSE LET f == Flush([r.sw EXCEPT !.currentMacro = <<>>])
                           IN  Result(f.sw, f.err, <<>>)

\* PushDirectory writing its enter statement at once.
PushDirectoryEager(sw, path, id) ==
    IF sw.currentMacro = <<>> THEN Result(sw, ErrNoMacro, <<>>)
    ELSE LET b == writeBuffered(
                    [sw EXCEPT !.dirStack = Append(@, [path |-> path, id |-> id])])
         IN  IF b.err # Nil THEN Result(b.sw, b.err, <<>>)
             ELSE LET r == writeString(b.sw, Entry(pushDirString(path), id))
                  IN  Result(r.sw, r.err, <<>>)

PushDirectory(sw, path, id) ==
    IF sw.currentMacro = <<>> THEN Result(sw, ErrNoMacro, <<>>)
    ELSE Result([sw EXCEPT
                   !.dirStack = Append(@, [path |-> path, id |-> id]),
                   !.buf = Append(@, Entry(pushDirString(path), id))],
                Nil, <<>>)

\* The exit statement of the directory that the call `id` entered.
exitEntry(id) == Entry(indentf("ctx = ctx.pop_directory(ctx)\n"), id)

\* popDirectory without the suppression of empty enter/exit pairs.
popDirectoryNoElide(sw) ==
    LET p == pop(sw.dirStack)
        r == writeString([sw EXCEPT !.dirStack = p.s], exitEntry(p.x.id))
    IN  Result(r.sw, r.err, p.x.path)

\* popDirectory leaving the suppressed enter statement in the pending buffer.
popDirectoryKeepPending(sw) ==
    LET p == pop(sw.dirStack)
        path == p.x.path
        sw1 == [sw EXCEPT !.dirStack = p.s]
    IN  IF Len(sw1.buf) > 0 /\ sw1.buf[Len(sw1.buf)].s = pushDirString(path)
        THEN Result(sw1, Nil, path)
        ELSE LET r == writeString(sw1, exitEntry(p.x.id))
             IN  Result(r.sw, r.err, path)

\* popDirectory writing the exit statement of a suppressed pair.
popDirectoryExitAlways(sw) ==
    LET p == pop(sw.dirStack)
        path == p.x.path
        sw1 == [sw EXCEPT !.dirStack = p.s]
        sw2 == IF Len(sw1.buf) > 0 /\ sw1.buf[Len(sw1.buf)].s = pushDirString(path)
               THEN [sw1 EXCEPT !.buf = SubSeq(@, 1, Len(@) - 1)]
               ELSE sw1
        r == writeString(sw2, exitEntry(p.x.id))
    IN  Result(r.sw, r.err, path)

\* PopDirectory once the macro is known to be open and the stack not empty.
popDirectory(sw) ==
    LET p == pop(sw.dirStack)
        path == p.x.path
        sw1 == [sw EXCEPT !.dirStack = p.s]
    IN  IF Len(sw1.buf) > 0 /\ sw1.buf[Len(sw1.buf)].s = pushDirString(path)
        THEN Result([sw1 EXCEPT !.buf = SubSeq(@, 1, Len(@) - 1)], Nil, path)
        ELSE LET r == writeString(sw1, exitEntry(p.x.id))
             IN  Result(r.sw, r.err, path)

\* PopDirectory with its two checks in the other order.
PopDirectoryStackFirst(sw, id) ==
    IF Len(sw.dirStack) = 0 THEN Result(sw, ErrNoDir, <<>>)
    ELSE IF sw.currentMacro = <<>> THEN Result(sw, ErrNoMacro, <<>>)
    ELSE popDirectory(sw)

\* PopDirectory taking an empty stack for a pair already suppressed.
PopDirectoryEmptyOk(sw, id) ==
    IF sw.currentMacro = <<>> THEN Result(sw, ErrNoMacro, <<>>)
    ELSE IF Len(sw.dirStack) = 0 THEN Result(sw, Nil, <<>>)
    ELSE popDirectory(sw)

PopDirectory(sw, id) ==
    IF sw.currentMacro = <<>> THEN Result(sw, ErrNoMacro, <<>>)
    ELSE IF Len(sw.dirStack) = 0 THEN Result(sw, ErrNoDir, <<>>)
    ELSE popDirectory(sw)

\* The loop of WriteCommand over its arguments.
RECURSIVE writeArgs(_, _, _)
writeArgs(sw, args, id) ==
    IF args = <<>> THEN [sw |-> sw, err |-> Nil]
    ELSE LET m == Marshal(Head(args))
         IN  IF m.err # Nil THEN [sw |-> sw, err |-> m.err]
             ELSE LET r == writeString(sw, Entry(", " \o m.val, id))
                  IN  IF r.err # Nil THEN r ELSE writeArgs(r.sw, Tail(args), id)

\* The statement of WriteCommand: its opening, its arguments, its closing.
writeInvocation(sw, name, args, id) ==
    LET o == writeString(sw, Entry(indentf("ctx." \o Str(name) \o "(ctx"), id))
    IN  IF o.err # Nil THEN Result(o.sw, o.err, <<>>)
        ELSE LET a == writeArgs(o.sw, args, id)
             IN  IF a.err # Nil THEN Result(a.sw, a.err, <<>>)
                 ELSE LET c == writeString(a.sw, Entry(")\n", id))
                      IN  Result(c.sw, c.err, <<>>)

\* writeCommand writing the pending statements after the command.
writeCommandLate(sw, name, args, id) ==
    LET c == writeInvocation(sw, name, args, id)
    IN  IF c.err # Nil THEN c
        ELSE LET b == writeBuffered(c.sw) IN Result(b.sw, b.err, <<>>)

\* WriteCommand once its name is sanitized.
writeCommand(sw, name, args, id) ==
    LET b == writeBuffered(sw)
    IN  IF b.err # Nil THEN Result(b.sw, b.err, <<>>)
        ELSE writeInvocation(b.sw, name, args, id)

\* WriteCommand writing the pending statements before it sanitizes the name.
WriteCommandFlushFirst(sw, cmd, args, id) ==
    IF sw.currentMacro = <<>> THEN Result(sw, ErrNoMacro, <<>>)
    ELSE LET b == writeBuffered(sw)
             n == identName(cmd)
         IN  IF b.err # Nil THEN Result(b.sw, b.err, <<>>)
             ELSE IF n.err # Nil THEN Result(b.sw, n.err, <<>>)
             ELSE writeInvocation(b.sw, n.name, args, id)

WriteCommand(sw, cmd, args, id) ==
    IF sw.currentMacro = <<>> THEN Result(sw, ErrNoMacro, <<>>)
    ELSE LET n == identName(cmd)
         IN  IF n.err # Nil THEN Result(sw, n.err, <<>>)
             ELSE writeCommand(sw, n.name, args, id)

-----------------------------------------------------------------------------
(* The inputs of the calls. *)

Gen == <<"g","e","n">>
CcLibrary == <<"c","c","_","l","i","b","r","a","r","y">>
If == <<"i","f">>
NotIdent == <<"1","x">>
Lib == <<"l","i","b">>
Quoted == <<"a","\"">>
Foo == [kind |-> "string", v |-> <<"f","o","o">>]
Bar == [kind |-> "string", v |-> <<"b","\\">>]
Chan == [kind |-> "chan", v |-> <<>>]

MacroNames == {Gen, If, NotIdent}
Paths == {Lib, Quoted}
\* WriteCommand's inputs: [cmd, args].
Commands ==
    { [cmd |-> CcLibrary, args |-> <<Foo>>],
      [cmd |-> If,        args |-> <<Foo, Bar>>],
      [cmd |-> CcLibrary, args |-> <<Foo, Chan, Bar>>],
      [cmd |-> NotIdent,  args |-> <<Foo>>] }
\* The sink behind sw.w during a call: one that never fails (a bytes.Buffer,
\* say), or any io.Writer, which may fail after 0..MaxSink calls of sw.w.
\* Once sw.w holds an error the sink is not reached any more.
Reliable == {NoLimit}
Failing == IF wErr THEN {NoLimit} ELSE {NoLimit} \cup 0..MaxSink

-----------------------------------------------------------------------------
(* The driver: one action per exported method.  A call that a precondition *)
(* check rejects is recorded in `last` only; every other call is appended  *)
(* to `trace`, and its number there is the id of what it renders.          *)

Rejected(err) == err \notin {Nil, ErrIO, ErrMarshal}

NextId == Len(trace) + 1

NumFailed == Cardinality({i \in 1..Len(trace) : trace[i].failed})

NumCalls(op) == Cardinality({i \in 1..Len(trace) : trace[i].op = op})

Call(op, name, args, r) ==
    [op |-> op, name |-> name, args |-> IF Rejected(r.err) THEN <<>> ELSE args,
     err |-> r.err, ret |-> r.ret,
     id |-> IF Rejected(r.err) THEN 0 ELSE NextId,
     macro |-> currentMacro, failed |-> wErr,
     stack |-> [i \in 1..Len(dirStack) |-> dirStack[i].id]]

Apply(op, name, args, r, maxOps) ==
    /\ Rejected(r.err) \/ Len(trace) < maxOps
    /\ (op = "WriteCommand" /\ ~Rejected(r.err)) => NumCalls("WriteCommand") < MaxCmds
    /\ (wErr /\ ~Rejected(r.err)) => NumFailed < MaxFailed
    /\ w' = r.sw.w
    /\ wErr' = r.sw.wErr
    /\ buf' = r.sw.buf
    /\ currentMacro' = r.sw.currentMacro
    /\ dirStack' = r.sw.dirStack
    /\ last' = Call(op, name, args, r)
    /\ trace' = IF Rejected(r.err) THEN trace
                ELSE Append(trace, Call(op, name, args, r))
    /\ UNCHANGED <<ident, sanitized>>

\* identName has not returned yet.
NotRun == [name |-> <<>>, err |-> "not run"]

NoCall == [op |-> "NewStarlarkWriter", name |-> <<>>, args |-> <<>>,
           err |-> Nil, ret |-> <<>>, id |-> 0, macro |-> <<>>, failed |-> FALSE,
           stack |-> <<>>]

Init ==
    /\ w = NewStarlarkWriter.w
    /\ wErr = NewStarlarkWriter.wErr
    /\ buf = NewStarlarkWriter.buf
    /\ currentMacro = NewStarlarkWriter.currentMacro
    /\ dirStack = NewStarlarkWriter.dirStack
    /\ last = NoCall
    /\ trace = <<>>
    /\ ident = <<>>
    /\ sanitized = NotRun

DoBeginMacro(sinks, maxOps) ==
    \E name \in MacroNames, left \in sinks :
        Apply("BeginMacro", name, <<>>, BeginMacro(Sw(left), name, NextId), maxOps)

DoEndMacro(sinks, maxOps) ==
    \E left \in sinks :
        Apply("EndMacro", <<>>, <<>>, EndMacro(Sw(left), NextId), maxOps)

DoPushDirectory(sinks, maxOps) ==
    \E path \in Paths, left \in sinks :
        Apply("PushDirectory", path, <<>>,
              PushDirectory(Sw(left), path, NextId), maxOps)

DoPopDirectory(sinks, maxOps) ==
    \E left \in sinks :
        Apply("PopDirectory", <<>>, <<>>, PopDirectory(Sw(left), NextId), maxOps)

DoWriteCommand(sinks, maxOps) ==
    \E c \in Commands, left \in sinks :
        Apply("WriteCommand", c.cmd, c.args,
              WriteCommand(Sw(left), c.cmd, c.args, NextId), maxOps)

\* The writer over a sink that never fails.
Next ==
    \/ DoBeginMacro(Reliable, MaxOps)
    \/ DoEndMacro(Reliable, MaxOps)
    \/ DoPushDirectory(Reliable, MaxOps)
    \/ DoPopDirectory(Reliable, MaxOps)
    \/ DoWriteCommand(Reliable, MaxOps)

Spec == Init /\ [][Next]_vars

\* The writer over a sink that may fail.
NextIO ==
    \/ DoBeginMacro(Failing, MaxOpsIO)
    \/ DoEndMacro(Failing, MaxOpsIO)
    \/ DoPushDirectory(Failing, MaxOpsIO)
    \/ DoPopDirectory(Failing, MaxOpsIO)
    \/ DoWriteCommand(Failing, MaxOpsIO)

SpecIO == Init /\ [][NextIO]_vars

\* A single macro on a fresh writer over a sink that never fails: the first
\* call is BeginMacro, no BeginMacro follows, and every command can be
\* encoded.
MacroCommands == {c \in Commands : \A i \in 1..Len(c.args) : Marshal(c.args[i]).err = Nil}

FirstBeginMacro ==
    /\ trace = <<>>
    /\ Apply("BeginMacro", If, <<>>, BeginMacro(Sw(NoLimit), If, NextId), MaxOpsMacro)

MacroWriteCommand ==
    \E c \in MacroCommands :
        Apply("WriteCommand", c.cmd, c.args,
              WriteCommand(Sw(NoLimit), c.cmd, c.args, NextId), MaxOpsMacro)

NextMacro ==
    \/ FirstBeginMacro
    \/ DoEndMacro(Reliable, MaxOpsMacro)
    \/ DoPushDirectory(Reliable, MaxOpsMacro)
    \/ DoPopDirectory(Reliable, MaxOpsMacro)
    \/ MacroWriteCommand

SpecMacro == Init /\ [][NextMacro]_vars

-----------------------------------------------------------------------------
(* The sanitizer alone: identName applied to one input. *)

IdentAlphabet == {"a", "Z", "_", "7", "-", " ", "i", "f", "\n"}

RECURSIVE StringsUpTo(_)
StringsUpTo(n) ==
    IF n = 0 THEN {<<>>}
    ELSE LET shorter == StringsUpTo(n - 1)
         IN  shorter \cup {Append(s, c) : s \in shorter, c \in IdentAlphabet}

IdentInputs ==
    StringsUpTo(MaxLen)
        \cup starlarkReserved
        \cup {Append(r, "_") : r \in starlarkReserved}
        \cup {Append(r, "2") : r \in starlarkReserved}
        \cup {<<"_">> \o r : r \in starlarkReserved}
        \cup {CcLibrary, Gen}

InitIdent ==
    /\ w = NewStarlarkWriter.w
    /\ wErr = NewStarlarkWriter.wErr
    /\ buf = NewStarlarkWriter.buf
    /\ currentMacro = NewStarlarkWriter.currentMacro
    /\ dirStack = NewStarlarkWriter.dirStack
    /\ last = NoCall
    /\ trace = <<>>
    /\ ident \in IdentInputs
    /\ sanitized = NotRun

Sanitize ==
    /\ sanitized = NotRun
    /\ sanitized' = identName(ident)
    /\ UNCHANGED <<ident, writerVars>>

NextIdent == Sanitize

SpecIdent == InitIdent /\ [][NextIdent]_vars

-----------------------------------------------------------------------------
(* What the claims speak of. *)

\* The fields of the writer that a call may change.
swFields == <<w, wErr, buf, currentMacro, dirStack>>

ReturnLine == "    return ctx\n"
ExitLine == "    ctx = ctx.pop_directory(ctx)\n"
HeaderLine(name) == "def " \o Str(name) \o "(ctx):\n"
EnterLine(path) == "    ctx = ctx.push_directory(ctx, " \o GoQuote(path) \o ")\n"

\* The names a macro of the model can have.
SanitizedMacroNames ==
    {identName(n).name : n \in {m \in MacroNames : identName(m).err = Nil}}
HeaderLines == {HeaderLine(n) : n \in SanitizedMacroNames}
EnterLines == {EnterLine(p) : p \in Paths}

\* The text of a sequence of entries.
RECURSIVE Text(_)
Text(es) == IF es = <<>> THEN "" ELSE Head(es).s \o Text(Tail(es))

\* The entries of es whose string is in S, in order.
RECURSIVE Only(_, _)
Only(es, S) ==
    IF es = <<>> THEN <<>>
    ELSE IF Head(es).s \in S THEN <<Head(es).s>> \o Only(Tail(es), S)
         ELSE Only(Tail(es), S)

-----------------------------------------------------------------------------
(* C9 *)

\* The reference sanitizer of the claim.
RefGrammar(s) ==
    /\ Len(s) >= 1
    /\ s[1] \in Lower \cup Upper \cup {"_"}
    /\ \A i \in 2..Len(s) : s[i] \in Lower \cup Upper \cup Digit \cup {"_"}

RefSanitize(s) ==
    IF RefGrammar(s) /\ s \notin starlarkReserved
        THEN [name |-> s, err |-> Nil]
    ELSE IF RefGrammar(s) /\ s \in starlarkReserved
        THEN [name |-> s \o <<"_">>, err |-> Nil]
    ELSE [name |-> <<>>, err |-> ErrInvalidIdent(s)]

\* C9: for every input the sanitizer returns what its reference function
\* returns: the string itself when it matches the identifier grammar and is
\* not reserved, the string with one underscore appended when it matches and
\* is reserved, and the InvalidIdentifier error otherwise (the empty string
\* included).
C9_SanitizerIsReference ==
    sanitized # NotRun => sanitized = RefSanitize(ident)

C9_Witness ==
    /\ sanitized # NotRun
    /\ ident = <<"i","f">>
    /\ sanitized = [name |-> <<"i","f","_">>, err |-> Nil]

-----------------------------------------------------------------------------
(* C6 *)

\* C6: with no macro open, WriteCommand, PushDirectory, PopDirectory and
\* EndMacro each return the NoActiveMacro error, whatever their arguments and
\* whatever the directory stack holds, and change no field of the writer
\* (nothing reaches sw.w).
C6_IdleCallsFail ==
    [][ (currentMacro = <<>> /\ last'.op \in
            {"WriteCommand", "PushDirectory", "PopDirectory", "EndMacro"})
        => (last'.err = ErrNoMacro /\ UNCHANGED swFields) ]_vars

C6_Witness ==
    /\ currentMacro = <<>>
    /\ w # <<>>
    /\ dirStack = <<>>
    /\ last.op = "PopDirectory"
    /\ last.err = ErrNoMacro

-----------------------------------------------------------------------------
(* C7 *)

\* Headers and return lines alternate, a header first.
RECURSIVE Alternate(_, _)
Alternate(lines, open) ==
    IF lines = <<>> THEN TRUE
    ELSE IF open THEN Head(lines) = ReturnLine /\ Alternate(Tail(lines), FALSE)
         ELSE Head(lines) \in HeaderLines /\ Alternate(Tail(lines), TRUE)

\* C7: BeginMacro while a macro is open returns the NestedMacro error for
\* every name and changes no field of the writer; and in the output headers
\* and return lines strictly alternate, starting with a header.
C7_NoNestedMacros ==
    /\ [][ (currentMacro # <<>> /\ last'.op = "BeginMacro")
           => (last'.err = ErrNested /\ UNCHANGED swFields) ]_vars
    /\ [](Alternate(Only(w, HeaderLines \cup {ReturnLine}), FALSE))

C7_Witness ==
    /\ last.op = "BeginMacro"
    /\ last.err = ErrNested
    /\ last.name = NotIdent
    /\ Only(w, HeaderLines \cup {ReturnLine}) = <<HeaderLine(Gen), ReturnLine>>
    /\ currentMacro = <<"i","f","_">>

-----------------------------------------------------------------------------
(* C8 *)

\* C8: PopDirectory in an open macro whose directory stack is empty returns
\* the EmptyDirectoryStack error and changes no field of the writer.
C8_PopEmptyStack ==
    [][ (currentMacro # <<>> /\ dirStack = <<>> /\ last'.op = "PopDirectory")
        => (last'.err = ErrNoDir /\ last'.ret = <<>> /\ UNCHANGED swFields) ]_vars

C8_Witness ==
    /\ last.op = "PopDirectory"
    /\ last.err = ErrNoDir
    /\ buf # <<>>
    /\ w # <<>>

-----------------------------------------------------------------------------
(* The history in `trace`. *)

Calls == 1..Len(trace)

\* The call that pushed the directory which the PopDirectory call j popped.
PushOf(j) == trace[j].stack[Len(trace[j].stack)]

\* The PopDirectory calls that popped an entry.
Pops == {j \in Calls : trace[j].op = "PopDirectory" /\ trace[j].stack # <<>>}

\* The places of the output that hold what call i rendered.
Places(i) == {p \in 1..Len(w) : w[p].id = i}

\* The calls between the calls i and j that write the pending statements out.
Flushing(i, j) ==
    {k \in (i + 1)..(j - 1) : trace[k].op \in {"WriteCommand", "EndMacro"}}

\* The last BeginMacro (0: none yet).
LastBegin ==
    LET B == {i \in Calls : trace[i].op = "BeginMacro"}
    IN  IF B = {} THEN 0 ELSE CHOOSE i \in B : \A k \in B : k <= i

SucceededSince(i, op) ==
    Cardinality({k \in Calls : k > i /\ trace[k].op = op /\ trace[k].err = Nil})

-----------------------------------------------------------------------------
(* C5 *)

\* C5: while a macro is open, the length of the directory stack is the number
\* of successful PushDirectory calls minus the number of successful
\* PopDirectory calls since the BeginMacro that opened the macro.
C5_StackLength ==
    currentMacro # <<>> =>
        Len(dirStack) = SucceededSince(LastBegin, "PushDirectory")
                          - SucceededSince(LastBegin, "PopDirectory")

-----------------------------------------------------------------------------
(* C3 *)

\* The output is a run of macro regions: a header, then lines that are
\* neither header nor return, then the return; the last may lack its return.
\* The pieces of a command statement count as lines of the region.
RECURSIVE Regions(_, _)
Regions(es, open) ==
    IF es = <<>> THEN TRUE
    ELSE LET s == Head(es).s
         IN  IF open
             THEN /\ s \notin HeaderLines
                  /\ Regions(Tail(es), s # ReturnLine)
             ELSE /\ s \in HeaderLines
                  /\ Regions(Tail(es), TRUE)

\* C3: the output is a concatenation of macro regions; no enter, exit or
\* command statement stands before the first header or between a return and
\* the next header.
C3_MacroRegions == Regions(w, FALSE)

-----------------------------------------------------------------------------
(* C4 *)

\* C4: a WriteCommand that returned the encoder's error has appended no part
\* of its own statement to the output.
C4_NoPartialStatement ==
    \A i \in Calls :
        (trace[i].op = "WriteCommand" /\ trace[i].err = ErrMarshal)
            => Places(i) = {}

-----------------------------------------------------------------------------
(* C10 *)

\* The run is one macro without directories on a fresh writer: BeginMacro,
\* successful WriteCommands, EndMacro, each successful.
PlainMacro ==
    /\ Len(trace) >= 2
    /\ trace[1].op = "BeginMacro"
    /\ trace[Len(trace)].op = "EndMacro"
    /\ \A i \in 2..(Len(trace) - 1) : trace[i].op = "WriteCommand"
    /\ \A i \in Calls : trace[i].err = Nil

\* The rendering the claim gives, from the calls of the run.
RECURSIVE RefArgs(_)
RefArgs(args) ==
    IF args = <<>> THEN ""
    ELSE ", " \o Marshal(Head(args)).val \o RefArgs(Tail(args))

RefStatement(c) ==
    "    ctx." \o Str(RefSanitize(c.name).name) \o "(ctx" \o RefArgs(c.args) \o ")\n"

RECURSIVE RefStatements(_)
RefStatements(calls) ==
    IF calls = <<>> THEN ""
    ELSE RefStatement(Head(calls)) \o RefStatements(Tail(calls))

RefMacro(calls) ==
    "def " \o Str(RefSanitize(calls[1].name).name) \o "(ctx):\n"
        \o RefStatements(SubSeq(calls, 2, Len(calls) - 1))
        \o "    return ctx\n"

Named(call, op, name, args) ==
    call.op = op /\ call.name = name /\ call.args = args

\* C10: a macro without directories on a fresh writer is rendered as its
\* header with the sanitized name, one indented line per command in call
\* order with the encoded arguments in call order, and the return line;
\* BeginMacro("gen"); WriteCommand("cc_library", "foo"); EndMacro() yields the
\* three lines of the example, and BeginMacro("if") the header of if_.
C10_PlainMacroText ==
    /\ PlainMacro => (buf = <<>> /\ Text(w) = RefMacro(trace))
    /\ ( /\ PlainMacro
         /\ Len(trace) = 3
         /\ Named(trace[1], "BeginMacro", Gen, <<>>)
         /\ Named(trace[2], "WriteCommand", CcLibrary, <<Foo>>) )
       => Text(w) = "def gen(ctx):\n    ctx.cc_library(ctx, \"foo\")\n    return ctx\n"
    /\ (Len(trace) = 1 /\ Named(trace[1], "BeginMacro", If, <<>>))
       => Text(buf) = "def if_(ctx):\n"
    /\ (PlainMacro /\ Len(trace) = 2 /\ Named(trace[1], "BeginMacro", If, <<>>))
       => Text(w) = "def if_(ctx):\n    return ctx\n"

C10_Witness ==
    /\ PlainMacro
    /\ Len(trace) = 4
    /\ Named(trace[1], "BeginMacro", Gen, <<>>)
    /\ Named(trace[2], "WriteCommand", If, <<Foo, Bar>>)
    /\ Named(trace[3], "WriteCommand", CcLibrary, <<Foo>>)
    /\ Text(w) = "def gen(ctx):\n    ctx.if_(ctx, \"foo\", \"b\\\\\")\n"
                    \o "    ctx.cc_library(ctx, \"foo\")\n    return ctx\n"

-----------------------------------------------------------------------------
(* C1 *)

\* Nothing of the directory context that call d pushed is in the output.
Elided(d) == Places(d) = {}

\* C1, as claimed: if no WriteCommand and no EndMacro succeeds between a
\* PushDirectory and the PopDirectory that pops its entry, neither the enter
\* nor the exit statement of that entry is in the output.
C1_ElidedUnlessSucceeded ==
    \A j \in Pops :
        (\A k \in Flushing(PushOf(j), j) : trace[k].err # Nil)
            => Elided(PushOf(j))

\* C1, amended: if between a PushDirectory and the PopDirectory that pops its
\* entry no WriteCommand with a valid name and no EndMacro is called at all,
\* neither the enter nor the exit statement of that entry is in the output.
C1_ElidedUnlessFlushed ==
    \A j \in Pops :
        Flushing(PushOf(j), j) = {} => Elided(PushOf(j))

C1_Witness ==
    /\ Len(trace) = 5
    /\ trace[2].op = "PushDirectory"
    /\ trace[3].op = "PushDirectory"
    /\ trace[4].op = "PopDirectory"
    /\ trace[5].op = "PopDirectory"
    /\ PushOf(5) = 2
    /\ trace[2].name = trace[3].name
    /\ w = <<>>
    /\ Text(buf) = "def gen(ctx):\n"

-----------------------------------------------------------------------------
(* C2 *)

\* The place of the enter statement of the directory that call d pushed.
EnterPlaces(d) == {p \in Places(d) : w[p].s = EnterLine(trace[d].name)}
ExitPlaces(d) == {p \in Places(d) : w[p].s = ExitLine}

Before(P, Q) == \A p \in P, q \in Q : p < q

\* C2: when WriteCommand succeeds with directories d1..dk open, the output
\* holds the enter statements of d1..dk, once each and in that order, before
\* the command's statement, and every later successful PopDirectory of one of
\* them has put its exit statement after the command's statement;
\* PushDirectory("lib"), WriteCommand("cc_library", "foo"), PopDirectory()
\* yields enter, command, exit in that order.
C2_EnterCommandExit ==
    /\ \A c \in Calls :
          (trace[c].op = "WriteCommand" /\ trace[c].err = Nil) =>
              LET ds == trace[c].stack
              IN  /\ Places(c) # {}
                  /\ \A i \in 1..Len(ds) :
                        /\ Cardinality(EnterPlaces(ds[i])) = 1
                        /\ Before(EnterPlaces(ds[i]), Places(c))
                        /\ i < Len(ds) =>
                              Before(EnterPlaces(ds[i]), EnterPlaces(ds[i + 1]))
                  /\ \A j \in Pops :
                        ( /\ j > c
                          /\ trace[j].err = Nil
                          /\ \E i \in 1..Len(ds) : ds[i] = PushOf(j) )
                        => /\ Cardinality(ExitPlaces(PushOf(j))) = 1
                           /\ Before(Places(c), ExitPlaces(PushOf(j)))
    /\ ( /\ Len(trace) = 4
         /\ Named(trace[1], "BeginMacro", Gen, <<>>)
         /\ Named(trace[2], "PushDirectory", Lib, <<>>)
         /\ Named(trace[3], "WriteCommand", CcLibrary, <<Foo>>)
         /\ trace[4].op = "PopDirectory"
         /\ \A i \in Calls : trace[i].err = Nil )
       => Text(w) = "def gen(ctx):\n"
                      \o "    ctx = ctx.push_directory(ctx, \"lib\")\n"
                      \o "    ctx.cc_library(ctx, \"foo\")\n"
                      \o "    ctx = ctx.pop_directory(ctx)\n"

C2_Witness ==
    /\ Len(trace) = 5
    /\ trace[4].op = "WriteCommand"
    /\ trace[4].err = Nil
    /\ trace[4].stack = <<2, 3>>
    /\ trace[5].op = "PopDirectory"
    /\ ExitPlaces(3) # {}
    /\ Len(w) = 7

-----------------------------------------------------------------------------
(* C11 *)

\* C11: EndMacro in an open macro is never rejected and succeeds unless the
\* sink fails, whatever the directory stack holds; when it succeeds it has
\* appended to the output the pending statements in their order and then the
\* return line, the pending buffer is empty, no macro is open, the directory
\* stack is as it was and no exit statement has been added to the output.
C11_EndMacroFlushes ==
    [][ (currentMacro # <<>> /\ last'.op = "EndMacro") =>
          /\ ~Rejected(last'.err)
          /\ ~wErr' => last'.err = Nil
          /\ last'.err = Nil =>
                /\ w' = w \o buf \o <<Entry(ReturnLine, last'.id)>>
                /\ buf' = <<>>
                /\ currentMacro' = <<>>
                /\ dirStack' = dirStack
                /\ Only(w', {ExitLine}) = Only(w, {ExitLine}) ]_vars

C11_Witness ==
    /\ last.op = "EndMacro"
    /\ last.err = Nil
    /\ currentMacro = <<>>
    /\ buf = <<>>
    /\ Len(dirStack) = 2
    /\ Text(w) = HeaderLine(Gen) \o EnterLine(Lib) \o EnterLine(Quoted)
                    \o ReturnLine

-----------------------------------------------------------------------------
(* C12 *)

IsPrefix(s, t) == Len(s) <= Len(t) /\ SubSeq(t, 1, Len(s)) = s

\* C12: every call, whatever it returns, leaves the output it found as a
\* prefix of the output; and the pending buffer is either extended, or
\* emptied with all its statements appended in order to the output it found,
\* or, by a successful PopDirectory that writes nothing, cut by its last
\* statement, the enter statement of the popped path.
C12_AppendOnly ==
    [][ /\ IsPrefix(w, w')
        /\ \/ IsPrefix(buf, buf')
           \/ buf' = <<>> /\ IsPrefix(w \o buf, w')
           \/ /\ last'.op = "PopDirectory"
              /\ last'.err = Nil
              /\ buf # <<>>
              /\ buf' = SubSeq(buf, 1, Len(buf) - 1)
              /\ buf[Len(buf)].s = EnterLine(last'.ret)
              /\ w' = w ]_vars

\* A flush that failed after its first statement: the output has grown and
\* the pending buffer is whole.
C12_Witness ==
    /\ last.op = "WriteCommand"
    /\ last.err = ErrIO
    /\ Text(w) = HeaderLine(Gen)
    /\ Text(buf) = HeaderLine(Gen) \o EnterLine(Lib)
    /\ Len(dirStack) = 1

-----------------------------------------------------------------------------
(* C13 *)

\* The PushDirectory calls among the first n calls whose entry no later call
\* among them has popped, oldest first, from the order of the calls alone.
RECURSIVE Open(_)
Open(n) ==
    IF n = 0 THEN <<>>
    ELSE LET prev == Open(n - 1)
         IN  IF trace[n].op = "PushDirectory" THEN Append(prev, n)
             ELSE IF trace[n].op = "PopDirectory" /\ prev # <<>>
                  THEN SubSeq(prev, 1, Len(prev) - 1)
                  ELSE prev

\* C13: every successful PopDirectory, eliding or not, returns the path given
\* to the most recent PushDirectory not yet popped and removes that one entry,
\* the last, from the directory stack, which holds the paths of the pushes
\* not yet popped, oldest first.
C13_PopIsLifo ==
    /\ [](/\ Len(dirStack) = Len(Open(Len(trace)))
          /\ \A i \in 1..Len(dirStack) :
                /\ dirStack[i].id = Open(Len(trace))[i]
                /\ dirStack[i].path = trace[dirStack[i].id].name
          /\ \A j \in Pops :
                trace[j].err = Nil =>
                    /\ Open(j - 1) # <<>>
                    /\ trace[j].ret = trace[Open(j - 1)[Len(Open(j - 1))]].name)
    /\ [][ (last'.op = "PopDirectory" /\ last'.err = Nil) =>
              /\ dirStack # <<>>
              /\ last'.ret = dirStack[Len(dirStack)].path
              /\ dirStack' = SubSeq(dirStack, 1, Len(dirStack) - 1) ]_vars

\* Two directories open over a command; the pop returns the inner one and
\* writes its exit.
C13_Witness ==
    /\ Len(trace) = 5
    /\ trace[2].op = "PushDirectory" /\ trace[2].name = Lib
    /\ trace[3].op = "PushDirectory" /\ trace[3].name = Quoted
    /\ trace[4].op = "WriteCommand"
    /\ last.op = "PopDirectory"
    /\ last.err = Nil
    /\ last.ret = Quoted
    /\ Len(dirStack) = 1
    /\ dirStack[1].path = Lib
    /\ w[Len(w)].s = ExitLine

-----------------------------------------------------------------------------
(* C14 *)

\* C14: a successful PopDirectory that writes an exit statement has first
\* written the statements pending before the call, in order, and leaves the
\* pending buffer empty.
C14_PopFlushesFirst ==
    [][ (last'.op = "PopDirectory" /\ last'.err = Nil /\ w' # w) =>
          /\ w' = w \o buf \o <<exitEntry(dirStack[Len(dirStack)].id)>>
          /\ buf' = <<>> ]_vars

-----------------------------------------------------------------------------
(* C15 *)

\* Call i is a successful BeginMacro or PushDirectory with no successful
\* WriteCommand or EndMacro after it and, for a PushDirectory, no PopDirectory
\* of its entry.
StillPending(i) ==
    /\ i \in Calls
    /\ trace[i].op \in {"BeginMacro", "PushDirectory"}
    /\ trace[i].err = Nil
    /\ \A k \in Calls :
          (k > i /\ trace[k].op \in {"WriteCommand", "EndMacro"})
              => trace[k].err # Nil
    /\ \A j \in Pops : PushOf(j) # i

\* C15: the pending buffer is empty whenever no macro is open and right after
\* every successful WriteCommand and EndMacro; it is not empty right after a
\* successful BeginMacro or PushDirectory; each statement it holds is that of
\* a BeginMacro or PushDirectory with no successful WriteCommand or EndMacro
\* and no cancelling PopDirectory since; and PushDirectory leaves the output
\* as it was, appending its enter statement to the pending buffer.
C15_PendingBuffer ==
    /\ [](/\ currentMacro = <<>> => buf = <<>>
          /\ (last.op \in {"WriteCommand", "EndMacro"} /\ last.err = Nil)
                => buf = <<>>
          /\ (last.op = "EndMacro" /\ last.err = Nil) => currentMacro = <<>>
          /\ (last.op \in {"BeginMacro", "PushDirectory"} /\ last.err = Nil)
                => buf # <<>>
          /\ \A p \in 1..Len(buf) : StillPending(buf[p].id))
    /\ [][ last'.op = "PushDirectory" =>
              /\ w' = w
              /\ last'.err = Nil =>
                    buf' = Append(buf, Entry(EnterLine(last'.name), last'.id)) ]_vars

\* A command has emptied the buffer, two directories were entered and the
\* inner one cancelled: the enter of the outer one is pending.
C15_Witness ==
    /\ Len(trace) = 5
    /\ trace[2].op = "WriteCommand"
    /\ trace[2].err = Nil
    /\ last.op = "PopDirectory"
    /\ last.err = Nil
    /\ Text(buf) = EnterLine(Lib)
    /\ Len(dirStack) = 1
    /\ Text(w) = HeaderLine(Gen) \o "    ctx.cc_library(ctx, \"foo\")\n"

-----------------------------------------------------------------------------
(* C16 *)

\* C16: BeginMacro with no macro open and a name outside the identifier
\* grammar returns the InvalidIdentifier error and changes no field of the
\* writer; a BeginMacro with a valid name right after it succeeds, records
\* the sanitized name and appends the header of that name to the pending
\* buffer, which the failed call found and left empty, writing nothing: the
\* writer is then as BeginMacro leaves it without the failed call.
C16_InvalidMacroName ==
    /\ [][ (currentMacro = <<>> /\ last'.op = "BeginMacro"
              /\ ~RefGrammar(last'.name))
           => (last'.err = ErrInvalidIdent(last'.name) /\ UNCHANGED swFields) ]_vars
    /\ [][ ( /\ last.op = "BeginMacro"
             /\ last.err = ErrInvalidIdent(last.name)
             /\ last'.op = "BeginMacro"
             /\ RefGrammar(last'.name) )
           => /\ last'.err = Nil
              /\ currentMacro' = RefSanitize(last'.name).name
              /\ buf' = Append(buf, Entry(HeaderLine(currentMacro'), last'.id))
              /\ buf = <<>>
              /\ w' = w
              /\ wErr' = wErr
              /\ dirStack' = dirStack ]_vars
    /\ []((last.op = "BeginMacro" /\ last.err = ErrInvalidIdent(last.name))
            => (currentMacro = <<>> /\ buf = <<>>))

\* The failed call on a writer that has already written a macro.
C16_Witness ==
    /\ last.op = "BeginMacro"
    /\ last.name = NotIdent
    /\ last.err = "invalid Starlark identifier: 1x"
    /\ currentMacro = <<>>
    /\ buf = <<>>
    /\ Text(w) = HeaderLine(Gen) \o ReturnLine

-----------------------------------------------------------------------------
(* C17 *)

\* C17: WriteCommand in an open macro with a name outside the identifier
\* grammar returns the InvalidIdentifier error and changes no field of the
\* writer; and a PopDirectory that follows such a call, itself made right
\* after a PushDirectory, succeeds, returns the pushed path, takes the enter
\* statement of that push off the pending buffer and writes nothing, so that
\* nothing of the pair is in the output.
C17_InvalidCommandName ==
    /\ [][ (currentMacro # <<>> /\ last'.op = "WriteCommand"
              /\ ~RefGrammar(last'.name))
           => (last'.err = ErrInvalidIdent(last'.name) /\ UNCHANGED swFields) ]_vars
    /\ [][ ( /\ last.op = "WriteCommand"
             /\ last.err = ErrInvalidIdent(last.name)
             /\ trace # <<>>
             /\ trace[Len(trace)].op = "PushDirectory"
             /\ last'.op = "PopDirectory" )
           => /\ last'.err = Nil
              /\ last'.ret = trace[Len(trace)].name
              /\ buf # <<>>
              /\ buf[Len(buf)] = Entry(EnterLine(last'.ret), Len(trace))
              /\ buf' = SubSeq(buf, 1, Len(buf) - 1)
              /\ w' = w
              /\ Elided(Len(trace))
              /\ dirStack' = SubSeq(dirStack, 1, Len(dirStack) - 1) ]_vars

\* The failed call, made with an enter statement pending behind a written
\* command.
C17_Witness ==
    /\ last.op = "WriteCommand"
    /\ last.name = NotIdent
    /\ last.err = "invalid Starlark identifier: 1x"
    /\ Len(trace) = 3
    /\ trace[3].op = "PushDirectory"
    /\ Text(buf) = EnterLine(Lib)
    /\ Text(w) = HeaderLine(Gen) \o "    ctx.cc_library(ctx, \"foo\")\n"
    /\ Len(dirStack) = 1

-----------------------------------------------------------------------------
(* C18 *)

\* The enter statements among the entries es, in order.
RECURSIVE Enters(_)
Enters(es) ==
    IF es = <<>> THEN <<>>
    ELSE IF Head(es).s \in EnterLines THEN <<Head(es)>> \o Enters(Tail(es))
         ELSE Enters(Tail(es))

\* The entries es are the enter statements of the topmost entries of the
\* directory stack, each rendered by the push of its entry.
TopOfStack(es) ==
    LET n == Len(es)
        k == Len(dirStack)
    IN  /\ n <= k
        /\ \A i \in 1..n :
              es[i] = Entry(EnterLine(dirStack[k - n + i].path),
                            dirStack[k - n + i].id)

\* C18: the enter statements in the pending buffer are always, in order,
\* those of the topmost entries of the directory stack; and the statement a
\* successful PopDirectory takes off the pending buffer is the one rendered
\* by the PushDirectory whose entry it pops, never that of another push of an
\* equal path.
C18_CancelsOwnPush ==
    /\ [](TopOfStack(Enters(buf)))
    /\ [][ (last'.op = "PopDirectory" /\ last'.err = Nil /\ buf' # buf) =>
              /\ buf[Len(buf)].id = dirStack[Len(dirStack)].id
              /\ trace[buf[Len(buf)].id].op = "PushDirectory"
              /\ buf[Len(buf)].s = EnterLine(trace[buf[Len(buf)].id].name)
              /\ buf' = SubSeq(buf, 1, Len(buf) - 1) ]_vars

\* Two pushes of one path: the first holds a command and is in the output,
\* the second was cancelled.
C18_Witness ==
    /\ Len(trace) = 5
    /\ trace[2].op = "PushDirectory"
    /\ trace[3].op = "WriteCommand"
    /\ trace[3].err = Nil
    /\ trace[4].op = "PushDirectory"
    /\ trace[4].name = trace[2].name
    /\ last.op = "PopDirectory"
    /\ last.err = Nil
    /\ PushOf(5) = 4
    /\ Elided(4)
    /\ EnterPlaces(2) # {}
    /\ Len(dirStack) = 1
    /\ dirStack[1].id = 2

-----------------------------------------------------------------------------
(* C19 *)

\* The number of entries of es whose string is in S.
Count(es, S) == Len(Only(es, S))

\* Enter statements written and pending, less exit statements written, are
\* as many as the directories open.
Balanced ==
    Count(w, EnterLines) + Count(buf, EnterLines) - Count(w, {ExitLine})
        = Len(dirStack)

\* No prefix of the output has more exit than enter statements, and each
\* exit statement stands behind the enter statement of its directory.
ExitsFollowEnters ==
    /\ \A n \in 0..Len(w) :
          Count(SubSeq(w, 1, n), {ExitLine}) <= Count(SubSeq(w, 1, n), EnterLines)
    /\ \A q \in 1..Len(w) :
          w[q].s = ExitLine =>
              \E p \in 1..(q - 1) :
                  w[p] = Entry(EnterLine(trace[w[q].id].name), w[q].id)

-----------------------------------------------------------------------------
(* C20 *)

\* The accepted calls of the run form one macro on a fresh writer, each call
\* successful: BeginMacro, then PushDirectory, PopDirectory and WriteCommand
\* calls, then EndMacro.
OneMacro ==
    /\ Len(trace) >= 2
    /\ trace[1].op = "BeginMacro"
    /\ trace[Len(trace)].op = "EndMacro"
    /\ \A i \in 2..(Len(trace) - 1) :
          trace[i].op \in {"PushDirectory", "PopDirectory", "WriteCommand"}
    /\ \A i \in Calls : trace[i].err = Nil

\* The statement the reference writer emits for a call.
NaiveStatement(c) ==
    CASE c.op = "BeginMacro" -> HeaderLine(RefSanitize(c.name).name)
      [] c.op = "PushDirectory" -> EnterLine(c.name)
      [] c.op = "PopDirectory" -> ExitLine
      [] c.op = "WriteCommand" -> RefStatement(c)
      [] c.op = "EndMacro" -> ReturnLine

NaiveOutput == [i \in Calls |-> NaiveStatement(trace[i])]

\* One pass over the statements that deletes each enter statement
\* immediately followed by an exit statement, with that exit statement.
RECURSIVE DeletePairs(_)
DeletePairs(ls) ==
    IF Len(ls) < 2 THEN ls
    ELSE IF ls[1] \in EnterLines /\ ls[2] = ExitLine
         THEN DeletePairs(SubSeq(ls, 3, Len(ls)))
         ELSE <<ls[1]>> \o DeletePairs(Tail(ls))

\* The passes repeated until none deletes anything.
RECURSIVE Peephole(_)
Peephole(ls) ==
    LET r == DeletePairs(ls)
    IN  IF r = ls THEN ls ELSE Peephole(r)

RECURSIVE Concat(_)
Concat(ls) == IF ls = <<>> THEN "" ELSE Head(ls) \o Concat(Tail(ls))

\* C20: when the calls of a run form one macro on a fresh writer, each call
\* successful, the output is the text of the reference writer, which emits an
\* enter statement for every PushDirectory and an exit statement for every
\* PopDirectory, after the repeated deletion of every enter statement
\* immediately followed by an exit statement; nothing is pending.
C20_PeepholeNormalForm ==
    OneMacro => (Text(w) = Concat(Peephole(NaiveOutput)) /\ buf = <<>>)

\* A directory that holds only an empty directory and a command: the inner
\* pair is deleted, the outer pair stays around the command.
C20_Witness ==
    /\ OneMacro
    /\ Len(trace) = 7
    /\ trace[2].op = "PushDirectory" /\ trace[2].name = Lib
    /\ trace[3].op = "PushDirectory" /\ trace[3].name = Lib
    /\ trace[4].op = "PopDirectory"
    /\ trace[5].op = "WriteCommand"
    /\ trace[6].op = "PopDirectory"
    /\ Len(Peephole(NaiveOutput)) = 5
    /\ Text(w) = "def if_(ctx):\n" \o EnterLine(Lib)
                    \o RefStatement(trace[5]) \o ExitLine \o ReturnLine

====
